---- MODULE Spec2Model ----
(***************************************************************************)
(* MineGuard: the detection-and-quantification pipeline                    *)
(* (backend/phase1_detection.py), the resident segmentation model          *)
(* (backend/ai_inference.py) and the analysis endpoint (backend/server.py).*)
(*                                                                         *)
(* Rasters are lazily evaluated expressions of the raster backend.  A      *)
(* reduceRegion evaluates its whole expression at the scale it names, so   *)
(* the model keeps two pixel grids over the search zone: the 10 m grid the *)
(* areas are summed on and the 30 m grid the rim mean and the volumes are  *)
(* summed on.  Scalars that come back from the backend are exact rationals *)
(* <<numerator, denominator>>; a missing value (Python None) is <<0, 0>>.  *)
(***************************************************************************)
EXTENDS Integers, FiniteSets, Sequences, TLC

\* ---------------------------------------------------------------- bounds
\* number of 10 m pixels of the search zone
NFine == 3
\* number of 30 m pixels of the search zone
NCoarse == 3
\* the highest DEM elevation
MaxElev == 3
\* thresholds compared by the monotonicity property are 0..MaxThreshold
MaxThreshold == 3

\* threads that construct and use MineSegmenter after startup
NCallers == 2
\* images given to predict are h x w with at most MaxImagePixels pixels
MaxImagePixels == 2
\* analysis jobs the server receives
NJobs == 2

\* ------------------------------------------------------ program constants
MIN_DEPTH_THRESHOLD == 2
SCALE_AREA == 10
SCALE_VOL == 30
RIM_RADIUS == 60
TRUCK_M3 == 15
\* a masked (no-data) pixel of a boolean raster
NoData == -1

Fine == 1..NFine
Coarse == 1..NCoarse
Pixels(scale) == IF scale = SCALE_AREA THEN Fine ELSE Coarse
\* the 30 m DEM cell a 10 m pixel is resampled from (nearest neighbour)
Parent(f) == ((f - 1) % NCoarse) + 1
\* ee.Image.pixelArea() at the evaluation scale
PixelArea(scale) == scale * scale

\* ------------------------------------------------------------- rationals
None == <<0, 0>>
Zero == <<0, 1>>
Rat(n) == <<n, 1>>
RAdd(a, b) == <<a[1] * b[2] + b[1] * a[2], a[2] * b[2]>>
\* a / b for b > 0
RDiv(a, b) == <<a[1] * b[2], a[2] * b[1]>>
RPos(a) == a[1] > 0
RIsZero(a) == a[2] # 0 /\ a[1] = 0
\* Python: x or 0.0
OrZeroUnguarded(v) == v
OrZero(v) == IF v = None \/ RIsZero(v) THEN Zero ELSE v
\* Python: int(x), truncation toward zero
Trunc(a) == IF a[1] >= 0 THEN a[1] \div a[2] ELSE -((-a[1]) \div a[2])
\* Python: round(x, 2), as an integer number of hundredths (half to even)
Round2(a) ==
    LET x == a[1] * 100
        fl == x \div a[2]
        rem == x - fl * a[2]
    IN  IF 2 * rem > a[2] THEN fl + 1
        ELSE IF 2 * rem < a[2] THEN fl
        ELSE IF fl % 2 = 0 THEN fl ELSE fl + 1

RECURSIVE SumOver(_, _)
SumOver(S, f) ==
    IF S = {} THEN 0
    ELSE LET p == CHOOSE q \in S : TRUE
         IN  f[p] + SumOver(S \ {p}, f)

\* ------------------------------------------------------ raster operators
\* ee.Image.And: masked where either input is masked
BAnd(a, b) == IF a = NoData \/ b = NoData THEN NoData
              ELSE IF a # 0 /\ b # 0 THEN 1 ELSE 0
\* ee.Image.Not
BNot(a) == IF a = NoData THEN NoData ELSE IF a = 0 THEN 1 ELSE 0

VARIABLES
    lease_geojson,    \* the job's lease input: omitted, malformed or a polygon
    cand10,           \* candidate_mask as the backend evaluates it at 10 m
    cand30,           \* candidate_mask as the backend evaluates it at 30 m
    dem,              \* the DEM mosaic, one elevation per 30 m cell
    pc,               \* position of run_unified_detection
    roi,              \* the lease geometry in use: the 10 m pixels it covers
    exprs,            \* the expression graph built so far: <<name, inputs>>
    matLog,           \* the materializations (getInfo) issued so far, in order
    lid_elevation,
    illegal_area_m2,
    illegal_vol_m3,
    legal_area_m2,
    legal_vol_m3,
    result,
    \* ai_inference.py: the class attributes of MineSegmenter and its users
    weights,          \* mineguard_unet.pth: "absent", "corrupt" or "ok"
    cls_instance,     \* MineSegmenter._instance: 0 is None, else an object id
    cls_model,        \* MineSegmenter._model: "None", "random" or "trained"
    loads,            \* how many times _load_model has run
    created,          \* how many MineSegmenter objects were created
    tpc,              \* position of each thread in MineSegmenter() / predict
    got,              \* the instance each thread's MineSegmenter() returned
    lastPred,         \* the last predict call: image shape and returned mask
    \* server.py: the analysis jobs and the Inspection table
    jpc,              \* position of each job's analyze_mining_site
    jstage,           \* materializations of the job's pipeline answered so far
    jresult,          \* what run_unified_detection returned to the job
    session,          \* Inspection added to the job's session, not committed
    db                \* committed Inspection rows

segVars == <<weights, cls_instance, cls_model, loads, created, tpc, got, lastPred>>
srvVars == <<jpc, jstage, jresult, session, db>>

pipeVars == <<lease_geojson, cand10, cand30, dem, pc, roi, exprs, matLog,
              lid_elevation, illegal_area_m2, illegal_vol_m3, legal_area_m2,
              legal_vol_m3, result>>

vars == <<pipeVars, segVars, srvVars>>

\* ------------------------------------------------- the rasters of one job
Candidate(scale) == IF scale = SCALE_AREA THEN cand10 ELSE cand30
DemAt(scale, p) == IF scale = SCALE_AREA THEN dem[Parent(p)] ELSE dem[p]

\* candidate_mask.focal_max(60, 'circle', 'meters') on the 30 m grid
FocalMax(c) ==
    LET radius == RIM_RADIUS \div SCALE_VOL
        nb == {d \in Coarse : d - c <= radius /\ c - d <= radius}
        valid == {d \in nb : cand30[d] # NoData}
    IN  IF valid = {} THEN NoData
        ELSE IF \E d \in valid : cand30[d] = 1 THEN 1 ELSE 0

RimMask(c) == BAnd(FocalMax(c), BNot(cand30[c]))

\* dem.updateMask(rim_mask).reduceRegion(mean, scale=30).get('DEM').getInfo()
RimMean ==
    LET R == {c \in Coarse : RimMask(c) = 1}
    IN  IF R = {} THEN None ELSE <<SumOver(R, dem), Cardinality(R)>>

\* raw_depth = constant(lid) - dem, as a numerator over the denominator lid[2]
RawDepthN(lid, scale, p) == lid[1] - lid[2] * DemAt(scale, p)

\* raw_depth.gt(thr)
DepthLt(depthN, den, thr) == depthN < thr * den
DepthGt(depthN, den, thr) == depthN > thr * den

VerifiedDepthMask(lid, thr, scale, p) ==
    IF DepthGt(RawDepthN(lid, scale, p), lid[2], thr) THEN 1 ELSE 0

\* candidate_mask.And(verified_depth_mask)
TotalMiningMaskNoDepth(lid, thr, scale, p) == Candidate(scale)[p]
TotalMiningMask(lid, thr, scale, p) ==
    BAnd(Candidate(scale)[p], VerifiedDepthMask(lid, thr, scale, p))

\* a pixel is painted when its centre lies in the polygon; the centre of the
\* 30 m cell c is the centre of the 10 m pixel c
InsidePolygon(r, scale, p) == p \in r

\* ee.Image.constant(0).byte().paint(roi, 1).unmask(0)
LeaseImageNoUnmask(r, scale, p) == IF InsidePolygon(r, scale, p) THEN 1 ELSE NoData
LeaseImage(r, scale, p) == IF InsidePolygon(r, scale, p) THEN 1 ELSE 0

\* lease_image.eq(v)
ImageEq(a, v) == IF a = NoData THEN NoData ELSE IF a = v THEN 1 ELSE 0

IllegalMask(lid, thr, r, scale, p) ==
    BAnd(TotalMiningMask(lid, thr, scale, p), ImageEq(LeaseImage(r, scale, p), 0))

LegalMask(lid, thr, r, scale, p) ==
    BAnd(TotalMiningMask(lid, thr, scale, p), ImageEq(LeaseImage(r, scale, p), 1))

ClassMask(cls, lid, thr, r, scale, p) ==
    IF cls = "illegal" THEN IllegalMask(lid, thr, r, scale, p)
    ELSE LegalMask(lid, thr, r, scale, p)

\* calc_stats, area: what the backend may answer to the sum at scale 10.
\* A sum over no unmasked pixel comes back missing or as zero.
AreaResponses(cls, lid, thr, r) ==
    LET valid == {p \in Pixels(SCALE_AREA) :
                    ClassMask(cls, lid, thr, r, SCALE_AREA, p) # NoData}
        ones == {p \in valid : ClassMask(cls, lid, thr, r, SCALE_AREA, p) = 1}
    IN  IF valid = {} THEN {None, Zero}
        ELSE {Rat(Cardinality(ones) * PixelArea(SCALE_AREA))}

\* calc_stats, vol: raw_depth.updateMask(mask) summed at scale 30
VolResponses(cls, lid, thr, r) ==
    LET ones == {p \in Pixels(SCALE_VOL) :
                    ClassMask(cls, lid, thr, r, SCALE_VOL, p) = 1}
        depth == [p \in Pixels(SCALE_VOL) |-> RawDepthN(lid, SCALE_VOL, p)]
    IN  IF ones = {} THEN {None, Zero}
        ELSE {<<SumOver(ones, depth) * PixelArea(SCALE_VOL), lid[2]>>}

\* ------------------------------------------------------------ the Result
TruckloadsOf(vol) == Trunc(<<vol[1], vol[2] * TRUCK_M3>>)

AvgDepthOf(vol, area) == IF RPos(area) THEN RDiv(vol, area) ELSE Zero

\* the returned dict; the rounded metrics are integer hundredths
MakeResult(ia, iv, la, lv) ==
    [status |-> "success",
     metrics |-> [illegal_area_m2 |-> Round2(ia),
                  volume_m3 |-> Round2(iv),
                  total_vol_m3 |-> Round2(RAdd(iv, lv)),
                  avg_depth_m |-> Round2(AvgDepthOf(iv, ia)),
                  truckloads |-> TruckloadsOf(iv)],
     artifacts |-> [map_url |-> "map_2d.html",
                    model_url |-> IF RPos(RAdd(ia, la)) THEN "model_3d.html"
                                  ELSE "None",
                    report_url |-> "report.pdf"]]

NoResult == [status |-> "none"]

\* ---------------------------------------------------------------- inputs
DefaultPolygon == {1}
Polygons == {1..k : k \in 0..NFine}
LeaseInputs == {[kind |-> "omitted", ring |-> {}],
                [kind |-> "malformed", ring |-> {}]}
               \cup {[kind |-> "polygon", ring |-> r] : r \in Polygons}

\* section A: the geometry the job analyses
RoiOf(lease) == IF lease.kind = "polygon" THEN lease.ring ELSE DefaultPolygon

\* pit floors at 0, undisturbed ground at the highest elevation
Elevations == {0, MaxElev}

InitPipe ==
    /\ lease_geojson \in LeaseInputs
    /\ \E scenes \in BOOLEAN :
          IF scenes
          THEN /\ cand10 \in [Fine -> {0, 1}]
               /\ cand30 \in [Coarse -> {0, 1}]
          ELSE /\ cand10 = [p \in Fine |-> NoData]
               /\ cand30 = [p \in Coarse |-> NoData]
    /\ dem \in [Coarse -> Elevations]
    /\ pc = "A"
    /\ roi = {}
    /\ exprs = {}
    /\ matLog = <<>>
    /\ lid_elevation = None
    /\ illegal_area_m2 = None
    /\ illegal_vol_m3 = None
    /\ legal_area_m2 = None
    /\ legal_vol_m3 = None
    /\ result = NoResult

\* no job is running
PipeIdle ==
    /\ lease_geojson = [kind |-> "omitted", ring |-> {}]
    /\ cand10 = [p \in Fine |-> NoData]
    /\ cand30 = [p \in Coarse |-> NoData]
    /\ dem = [c \in Coarse |-> 0]
    /\ pc = "idle"
    /\ roi = {}
    /\ exprs = {}
    /\ matLog = <<>>
    /\ lid_elevation = None
    /\ illegal_area_m2 = None
    /\ illegal_vol_m3 = None
    /\ legal_area_m2 = None
    /\ legal_vol_m3 = None
    /\ result = NoResult

NoPrediction == [made |-> FALSE, h |-> 0, w |-> 0, mask |-> <<>>]

\* the class as defined (lines 9-10), before any construction
SegIdle ==
    /\ cls_instance = 0
    /\ cls_model = "None"
    /\ loads = 0
    /\ created = 0
    /\ tpc = [t \in 0..NCallers |-> "idle"]
    /\ got = [t \in 0..NCallers |-> 0]
    /\ lastPred = NoPrediction

\* no request received
ServerIdle ==
    /\ jpc = [j \in 1..NJobs |-> "idle"]
    /\ jstage = [j \in 1..NJobs |-> 0]
    /\ jresult = [j \in 1..NJobs |-> NoResult]
    /\ session = [j \in 1..NJobs |-> {}]
    /\ db = {}

Init ==
    /\ InitPipe
    /\ weights = "ok"
    /\ SegIdle
    /\ ServerIdle

InitSeg ==
    /\ PipeIdle
    /\ weights \in {"absent", "corrupt", "ok"}
    /\ SegIdle
    /\ ServerIdle

InitServer ==
    /\ PipeIdle
    /\ weights = "ok"
    /\ SegIdle
    /\ ServerIdle

inputVars == <<lease_geojson, cand10, cand30, dem>>
statVars == <<illegal_area_m2, illegal_vol_m3, legal_area_m2, legal_vol_m3>>

Define(name, inputs) == exprs \cup {<<name, inputs>>}

\* lines 41-50
InputA ==
    /\ pc = "A"
    /\ roi' = RoiOf(lease_geojson)
    /\ exprs' = exprs \cup {<<"roi", {}>>, <<"search_zone", {"roi"}>>}
    /\ pc' = "B"
    /\ UNCHANGED <<segVars, srvVars, inputVars, matLog, lid_elevation, statVars, result>>

\* lines 52-65
DetectB ==
    /\ pc = "B"
    /\ exprs' = exprs \cup {<<"optical_mask", {"search_zone"}>>,
                            <<"radar_mask", {"search_zone"}>>,
                            <<"candidate_mask", {"optical_mask", "radar_mask"}>>}
    /\ pc' = "C"
    /\ UNCHANGED <<segVars, srvVars, inputVars, roi, matLog, lid_elevation, statVars, result>>

\* what rim_mask is built from (line 71)
RimInputsTotal == {"total_mining_mask"}
RimInputs == {"candidate_mask"}

\* lines 69-72
RimStatsC ==
    /\ pc = "C"
    /\ exprs' = exprs \cup {<<"dem", {"search_zone"}>>,
                            <<"rim_mask", RimInputs>>,
                            <<"rim_stats", {"dem", "rim_mask", "search_zone"}>>}
    /\ pc' = "C_getInfo"
    /\ UNCHANGED <<segVars, srvVars, inputVars, roi, matLog, lid_elevation, statVars, result>>

\* line 73
GetLid ==
    /\ pc = "C_getInfo"
    /\ matLog' = Append(matLog, "rim_stats")
    /\ lid_elevation' = OrZero(RimMean)
    /\ exprs' = exprs \cup {<<"lid_elevation", {"rim_stats"}>>}
    /\ pc' = "D"
    /\ UNCHANGED <<segVars, srvVars, inputVars, roi, statVars, result>>

\* lines 75-87
VerifyClassifyD ==
    /\ pc = "D"
    /\ exprs' = exprs \cup
          {<<"raw_depth", {"lid_elevation", "dem"}>>,
           <<"verified_depth_mask", {"raw_depth"}>>,
           <<"total_mining_mask", {"candidate_mask", "verified_depth_mask"}>>,
           <<"lease_image", {"roi"}>>,
           <<"illegal_mask", {"total_mining_mask", "lease_image"}>>,
           <<"legal_mask", {"total_mining_mask", "lease_image"}>>}
    /\ pc' = "E_illegal_area"
    /\ UNCHANGED <<segVars, srvVars, inputVars, roi, matLog, lid_elevation, statVars, result>>

\* line 93, called from line 98
AreaIllegal ==
    /\ pc = "E_illegal_area"
    /\ matLog' = Append(matLog, "illegal_area")
    /\ \E resp \in AreaResponses("illegal", lid_elevation, MIN_DEPTH_THRESHOLD, roi) :
          illegal_area_m2' = OrZero(resp)
    /\ pc' = "E_illegal_vol"
    /\ UNCHANGED <<segVars, srvVars, inputVars, roi, exprs, lid_elevation, illegal_vol_m3,
                   legal_area_m2, legal_vol_m3, result>>

\* lines 94-95, called from line 98
VolIllegal ==
    /\ pc = "E_illegal_vol"
    /\ matLog' = Append(matLog, "illegal_vol")
    /\ \E resp \in VolResponses("illegal", lid_elevation, MIN_DEPTH_THRESHOLD, roi) :
          illegal_vol_m3' = OrZero(resp)
    /\ pc' = "E_legal_area"
    /\ UNCHANGED <<segVars, srvVars, inputVars, roi, exprs, lid_elevation, illegal_area_m2,
                   legal_area_m2, legal_vol_m3, result>>

\* line 93, called from line 99
AreaLegal ==
    /\ pc = "E_legal_area"
    /\ matLog' = Append(matLog, "legal_area")
    /\ \E resp \in AreaResponses("legal", lid_elevation, MIN_DEPTH_THRESHOLD, roi) :
          legal_area_m2' = OrZero(resp)
    /\ pc' = "E_legal_vol"
    /\ UNCHANGED <<segVars, srvVars, inputVars, roi, exprs, lid_elevation, illegal_area_m2,
                   illegal_vol_m3, legal_vol_m3, result>>

\* lines 94-95, called from line 99
VolLegal ==
    /\ pc = "E_legal_vol"
    /\ matLog' = Append(matLog, "legal_vol")
    /\ \E resp \in VolResponses("legal", lid_elevation, MIN_DEPTH_THRESHOLD, roi) :
          legal_vol_m3' = OrZero(resp)
    /\ pc' = "F"
    /\ UNCHANGED <<segVars, srvVars, inputVars, roi, exprs, lid_elevation, illegal_area_m2,
                   illegal_vol_m3, legal_area_m2, result>>

\* lines 101-160
AssembleH ==
    /\ pc = "F"
    /\ result' = MakeResult(illegal_area_m2, illegal_vol_m3,
                            legal_area_m2, legal_vol_m3)
    /\ pc' = "done"
    /\ UNCHANGED <<segVars, srvVars, inputVars, roi, exprs, matLog, lid_elevation, statVars>>

MaterializationPoints ==
    {"C_getInfo", "E_illegal_area", "E_illegal_vol", "E_legal_area", "E_legal_vol"}

\* getInfo raises (network, quota, timeout): the exception leaves the function
BackendError ==
    /\ pc \in MaterializationPoints
    /\ matLog' = Append(matLog, "error")
    /\ pc' = "raised"
    /\ UNCHANGED <<segVars, srvVars, inputVars, roi, exprs, lid_elevation, statVars, result>>

Next ==
    \/ InputA
    \/ DetectB
    \/ RimStatsC
    \/ GetLid
    \/ VerifyClassifyD
    \/ AreaIllegal
    \/ VolIllegal
    \/ AreaLegal
    \/ VolLegal
    \/ AssembleH
    \/ BackendError

Spec == Init /\ [][Next]_vars

\* =================================================== ai_inference.py
\* thread 0 runs startup_event; threads 1..NCallers are request threads
Startup == 0
Callers == 1..NCallers
Threads == {Startup} \cup Callers
Dims == 1..MaxImagePixels
ImagePixels(h, w) == (1..h) \X (1..w)
ZeroMask(h, w) == [q \in ImagePixels(h, w) |-> 0]

\* line 13: cls._instance is None
AlwaysMissing(inst) == TRUE
InstanceMissing(inst) == inst = 0

\* lines 35-43: the model _load_model leaves in cls._model
ModelAfterLoad(w) == IF w = "ok" THEN "trained" ELSE "random"

\* lines 56-74: the masks inference can give.  The image content and the
\* weight values are not modelled: trained weights give some mask, and the
\* untrained (randomly initialised) network gives any mask
Inference(model, h, w) == [ImagePixels(h, w) -> {0, 255}]

\* lines 53-74
PredictOutputs(model, h, w) ==
    IF model = "None" THEN {ZeroMask(h, w)} ELSE Inference(model, h, w)

\* line 12-13: a thread enters MineSegmenter(); requests are served only
\* after startup_event has returned (server.py lines 21-24)
NewEnter(t) ==
    /\ \/ tpc[t] = "idle"
       \/ t \in Callers /\ tpc[t] = "ready"
    /\ t \in Callers => tpc[Startup] = "ready"
    /\ tpc' = [tpc EXCEPT ![t] = IF InstanceMissing(cls_instance)
                                  THEN "new_create" ELSE "new_return"]
    /\ UNCHANGED <<pipeVars, srvVars, weights, cls_instance, cls_model, loads,
                   created, got, lastPred>>

\* lines 14-15
NewCreate(t) ==
    /\ tpc[t] = "new_create"
    /\ created' = created + 1
    /\ cls_instance' = created + 1
    /\ tpc' = [tpc EXCEPT ![t] = "load_unet"]
    /\ UNCHANGED <<pipeVars, srvVars, weights, cls_model, loads, got, lastPred>>

\* lines 22-33
LoadUnet(t) ==
    /\ tpc[t] = "load_unet"
    /\ loads' = loads + 1
    /\ cls_model' = "random"
    /\ tpc' = [tpc EXCEPT ![t] = "load_weights"]
    /\ UNCHANGED <<pipeVars, srvVars, weights, cls_instance, created, got, lastPred>>

\* lines 35-46
LoadWeights(t) ==
    /\ tpc[t] = "load_weights"
    /\ cls_model' = ModelAfterLoad(weights)
    /\ tpc' = [tpc EXCEPT ![t] = "new_return"]
    /\ UNCHANGED <<pipeVars, srvVars, weights, cls_instance, loads, created, got,
                   lastPred>>

\* line 17
NewReturn(t) ==
    /\ tpc[t] = "new_return"
    /\ got' = [got EXCEPT ![t] = cls_instance]
    /\ tpc' = [tpc EXCEPT ![t] = "ready"]
    /\ UNCHANGED <<pipeVars, srvVars, weights, cls_instance, cls_model, loads,
                   created, lastPred>>

\* lines 48-74
Predict(t) ==
    /\ tpc[t] = "ready"
    /\ t \in Callers
    /\ \E h \in Dims : \E w \in Dims :
          /\ h * w <= MaxImagePixels
          /\ \E mask \in PredictOutputs(cls_model, h, w) :
                lastPred' = [made |-> TRUE, h |-> h, w |-> w, mask |-> mask]
    /\ UNCHANGED <<pipeVars, srvVars, weights, cls_instance, cls_model, loads,
                   created, tpc, got>>

SegNext ==
    \E t \in Threads :
       \/ NewEnter(t)
       \/ NewCreate(t)
       \/ LoadUnet(t)
       \/ LoadWeights(t)
       \/ NewReturn(t)
       \/ Predict(t)

SegSpec == InitSeg /\ [][SegNext]_vars

\* run_unified_detection as a function of the geometry it analyses, over the
\* rasters of the state (the answer to an empty sum does not show after `or 0.0`)
LidOf == OrZero(RimMean)
AreaOf(cls, thr, r) == OrZero(CHOOSE x \in AreaResponses(cls, LidOf, thr, r) : TRUE)
VolOf(cls, thr, r) == OrZero(CHOOSE x \in VolResponses(cls, LidOf, thr, r) : TRUE)
FinalResult(r) ==
    MakeResult(AreaOf("illegal", MIN_DEPTH_THRESHOLD, r),
               VolOf("illegal", MIN_DEPTH_THRESHOLD, r),
               AreaOf("legal", MIN_DEPTH_THRESHOLD, r),
               VolOf("legal", MIN_DEPTH_THRESHOLD, r))

\* ------------------------------------------------------------ properties
Scales == {SCALE_AREA, SCALE_VOL}
LidKnown == pc \in {"D", "E_illegal_area", "E_illegal_vol", "E_legal_area",
                    "E_legal_vol", "F", "done"}
\* the state right after lines 75-87 built the depth and class masks
MasksBuilt == pc = "E_illegal_area"
StatsKnown == pc \in {"F", "done"}
EmptyCandidate == /\ \A p \in Fine : cand10[p] = NoData
                  /\ \A c \in Coarse : cand30[c] = NoData
UsedFallback == lease_geojson.kind \in {"omitted", "malformed"}
Thresholds == 0..MaxThreshold

\* C1: every pixel of total (= candidate AND verifiedDepth) is in exactly one of
\* legal and illegal, no pixel outside total is in either, at both scales the
\* masks are evaluated at; so the two areas add up to the area of total.
C1_Partition ==
    /\ MasksBuilt =>
         \A scale \in Scales : \A p \in Pixels(scale) :
            LET t == TotalMiningMask(lid_elevation, MIN_DEPTH_THRESHOLD, scale, p)
                i == IllegalMask(lid_elevation, MIN_DEPTH_THRESHOLD, roi, scale, p)
                l == LegalMask(lid_elevation, MIN_DEPTH_THRESHOLD, roi, scale, p)
                v == VerifiedDepthMask(lid_elevation, MIN_DEPTH_THRESHOLD, scale, p)
            IN  /\ ~(i = 1 /\ l = 1)
                /\ (i = 1 \/ l = 1) <=> (t = 1)
                /\ (t = 1) <=> (Candidate(scale)[p] = 1 /\ v = 1)
    /\ StatsKnown =>
         RAdd(illegal_area_m2, legal_area_m2) =
           Rat(Cardinality({p \in Fine :
                  TotalMiningMask(lid_elevation, MIN_DEPTH_THRESHOLD,
                                  SCALE_AREA, p) = 1}) * PixelArea(SCALE_AREA))

C1_Witness ==
    /\ pc = "done"
    /\ \E p \in Fine :
          IllegalMask(lid_elevation, MIN_DEPTH_THRESHOLD, roi, SCALE_AREA, p) = 1
    /\ \E p \in Fine :
          LegalMask(lid_elevation, MIN_DEPTH_THRESHOLD, roi, SCALE_AREA, p) = 1
    /\ \E p \in Fine :
          TotalMiningMask(lid_elevation, MIN_DEPTH_THRESHOLD, SCALE_AREA, p) = 0

\* C2: in every returned Result, illegal_area_m2 = 0 implies avg_depth_m = 0 and
\* truckloads = 0, whatever the volume sum returned.
C2_ZeroGuard ==
    (pc = "done" /\ result.metrics.illegal_area_m2 = 0) =>
      (result.metrics.avg_depth_m = 0 /\ result.metrics.truckloads = 0)

\* C4: a Result computed for the default polygon because of the fallback differs
\* from the Result the same rasters give for the default polygon validly supplied.
C4_FallbackSignalled ==
    (pc = "done" /\ UsedFallback) => result # FinalResult(DefaultPolygon)

\* C5: with an empty candidate mask and every aggregate missing (or zero), the
\* reference elevation is 0.0, the run can end only by returning, unless the
\* backend itself raised, and the Result is a success with zero illegal area and
\* zero truckloads.
C5_EmptyCandidate ==
    EmptyCandidate =>
      /\ LidKnown => lid_elevation = Zero
      /\ pc = "raised" => matLog[Len(matLog)] = "error"
      /\ StatsKnown => illegal_area_m2 = Zero /\ illegal_vol_m3 = Zero
      /\ pc = "done" =>
            /\ result.status = "success"
            /\ result.metrics.illegal_area_m2 = 0
            /\ result.metrics.truckloads = 0

C5_Witness ==
    /\ EmptyCandidate
    /\ pc = "done"
    /\ result.status = "success"
    /\ lid_elevation = Zero

\* C6: for the rasters, polygon and reference elevation of a job, a larger
\* depth threshold never gives a larger illegal mask or illegal area; in
\* particular none above MIN_DEPTH_THRESHOLD gives more than the job measured.
C6_Monotone ==
    /\ MasksBuilt =>
         \A t1 \in Thresholds : \A t2 \in Thresholds :
            t1 <= t2 =>
              /\ \A scale \in Scales : \A p \in Pixels(scale) :
                    IllegalMask(lid_elevation, t2, roi, scale, p) = 1
                      => IllegalMask(lid_elevation, t1, roi, scale, p) = 1
              /\ AreaOf("illegal", t2, roi)[1] <= AreaOf("illegal", t1, roi)[1]
    /\ pc = "done" =>
         \A t \in Thresholds :
            /\ t >= MIN_DEPTH_THRESHOLD =>
                  Round2(AreaOf("illegal", t, roi)) <= result.metrics.illegal_area_m2
            /\ t <= MIN_DEPTH_THRESHOLD =>
                  Round2(AreaOf("illegal", t, roi)) >= result.metrics.illegal_area_m2

C6_Witness ==
    /\ pc = "done"
    /\ illegal_area_m2[1] > 0
    /\ \E t \in Thresholds :
          /\ t > MIN_DEPTH_THRESHOLD
          /\ AreaOf("illegal", t, roi)[1] < illegal_area_m2[1]

\* C8: every pixel that contributes to a volume sum is a candidate pixel whose
\* depth is strictly above MIN_DEPTH_THRESHOLD (>= 0), so both volume sums are
\* non-negative.
C8_NoNegativeDepth ==
    /\ MIN_DEPTH_THRESHOLD >= 0
    /\ MasksBuilt =>
         \A cls \in {"illegal", "legal"} : \A p \in Pixels(SCALE_VOL) :
            ClassMask(cls, lid_elevation, MIN_DEPTH_THRESHOLD, roi, SCALE_VOL, p) = 1
              => /\ cand30[p] = 1
                 /\ lid_elevation[2] > 0
                 /\ RawDepthN(lid_elevation, SCALE_VOL, p)
                      > MIN_DEPTH_THRESHOLD * lid_elevation[2]
    /\ pc \in {"E_legal_area", "E_legal_vol", "F", "done"} =>
         illegal_vol_m3[1] >= 0 /\ illegal_vol_m3[2] > 0
    /\ StatsKnown => legal_vol_m3[1] >= 0 /\ legal_vol_m3[2] > 0
    /\ pc = "done" => result.metrics.volume_m3 >= 0
                      /\ result.metrics.total_vol_m3 >= 0

C8_Witness ==
    /\ pc = "done"
    /\ illegal_vol_m3[1] > 0
    /\ \E c \in Coarse :
          /\ cand30[c] = 1
          /\ RawDepthN(lid_elevation, SCALE_VOL, c) <= 0

\* =========================================================== server.py
Jobs == 1..NJobs
\* the blocking round trips of one run_unified_detection call
NStages == Cardinality(MaterializationPoints)
Inspection(j, res) == [job_id |-> j, status |-> res.status]
Rows(j) == {row \in db : row.job_id = j}

\* lines 127-131: what the except clause leaves in the table
ExceptRecordsFailure(j) == db \cup {[job_id |-> j, status |-> "failed"]}
ExceptDb(j) == db

\* lines 61-67
Receive(j) ==
    /\ jpc[j] = "idle"
    /\ jpc' = [jpc EXCEPT ![j] = "save"]
    /\ UNCHANGED <<pipeVars, segVars, jstage, jresult, session, db>>

\* lines 70-73
SaveFile(j) ==
    /\ jpc[j] = "save"
    /\ jpc' = [jpc EXCEPT ![j] = "pipeline"]
    /\ UNCHANGED <<pipeVars, segVars, jstage, jresult, session, db>>

\* lines 74-76
FileError(j) ==
    /\ jpc[j] = "save"
    /\ jpc' = [jpc EXCEPT ![j] = "file_error"]
    /\ UNCHANGED <<pipeVars, segVars, jstage, jresult, session, db>>

\* line 83: one materialization of the job's pipeline is answered
PipelineStage(j) ==
    /\ jpc[j] = "pipeline"
    /\ jstage[j] < NStages
    /\ jstage' = [jstage EXCEPT ![j] = jstage[j] + 1]
    /\ UNCHANGED <<pipeVars, segVars, jpc, jresult, session, db>>

\* line 83 raises, lines 127-131 answer 500
PipelineRaises(j) ==
    /\ jpc[j] = "pipeline"
    /\ jstage[j] < NStages
    /\ db' = ExceptDb(j)
    /\ jpc' = [jpc EXCEPT ![j] = "pipeline_raised"]
    /\ UNCHANGED <<pipeVars, segVars, jstage, jresult, session>>

\* lines 83-99: run_unified_detection returns its Result
PipelineReturns(j) ==
    /\ jpc[j] = "pipeline"
    /\ jstage[j] = NStages
    /\ jresult' = [jresult EXCEPT ![j] = [status |-> "success"]]
    /\ jpc' = [jpc EXCEPT ![j] = "add"]
    /\ UNCHANGED <<pipeVars, segVars, jstage, session, db>>

\* lines 101-114
DbAdd(j) ==
    /\ jpc[j] = "add"
    /\ session' = [session EXCEPT ![j] = {Inspection(j, jresult[j])}]
    /\ jpc' = [jpc EXCEPT ![j] = "commit"]
    /\ UNCHANGED <<pipeVars, segVars, jstage, jresult, db>>

\* line 115
DbCommit(j) ==
    /\ jpc[j] = "commit"
    /\ db' = db \cup session[j]
    /\ session' = [session EXCEPT ![j] = {}]
    /\ jpc' = [jpc EXCEPT ![j] = "refresh"]
    /\ UNCHANGED <<pipeVars, segVars, jstage, jresult>>

\* line 115 or 116 raises, lines 127-131 answer 500; the session is dropped
DbError(j) ==
    /\ jpc[j] \in {"commit", "refresh"}
    /\ db' = ExceptDb(j)
    /\ session' = [session EXCEPT ![j] = {}]
    /\ jpc' = [jpc EXCEPT ![j] = "db_error"]
    /\ UNCHANGED <<pipeVars, segVars, jstage, jresult>>

\* lines 116-125
Respond(j) ==
    /\ jpc[j] = "refresh"
    /\ jpc' = [jpc EXCEPT ![j] = "returned"]
    /\ UNCHANGED <<pipeVars, segVars, jstage, jresult, session, db>>

\* the request is abandoned while the handler waits on the file, the raster
\* backend or the database: the handler does not continue, its session is dropped
Abandon(j) ==
    /\ jpc[j] \in {"save", "pipeline", "commit"}
    /\ session' = [session EXCEPT ![j] = {}]
    /\ jpc' = [jpc EXCEPT ![j] = "abandoned"]
    /\ UNCHANGED <<pipeVars, segVars, jstage, jresult, db>>

ServerNext ==
    \E j \in Jobs :
       \/ Receive(j)
       \/ SaveFile(j)
       \/ FileError(j)
       \/ PipelineStage(j)
       \/ PipelineRaises(j)
       \/ PipelineReturns(j)
       \/ DbAdd(j)
       \/ DbCommit(j)
       \/ DbError(j)
       \/ Respond(j)
       \/ Abandon(j)

ServerSpec == InitServer /\ [][ServerNext]_vars

\* C9: a job has an Inspection row (added or committed) only once
\* run_unified_detection returned it the complete Result; a job whose pipeline
\* raised, whose file failed or that was abandoned before the Result has none;
\* and a job that went through has its own row whatever happened to the others.
C9_NoPartialPersistence ==
    \A j \in Jobs :
       /\ (Rows(j) # {} \/ session[j] # {}) =>
             /\ jresult[j] = [status |-> "success"]
             /\ jstage[j] = NStages
       /\ \A row \in Rows(j) \cup session[j] : row = Inspection(j, jresult[j])
       /\ (jpc[j] \in {"file_error", "pipeline_raised"} \/ jresult[j] = NoResult) =>
             Rows(j) = {} /\ session[j] = {}
       /\ jpc[j] \in {"refresh", "returned"} => Rows(j) = {Inspection(j, jresult[j])}

C9_Witness ==
    \E j \in Jobs : \E k \in Jobs :
       /\ j < k
       /\ jpc[j] = "pipeline_raised"
       /\ jstage[j] > 0
       /\ Rows(j) = {}
       /\ jpc[k] = "returned"
       /\ Rows(k) # {}

\* C3: with the weight file absent at load time, every predict returns the
\* all-zero mask of the image's height and width.
C3_AbsentWeightsZeroMask ==
    (weights = "absent" /\ lastPred.made) =>
       lastPred.mask = ZeroMask(lastPred.h, lastPred.w)

\* C7: over startup and any interleaving of later constructions, _load_model
\* runs at most once, one object is created and every construction returns it,
\* and the model the load left stays in place through every predict.
C7_LoadedOnce ==
    /\ loads <= 1
    /\ created <= 1
    /\ \A t \in Threads :
          got[t] # 0 => got[t] = cls_instance /\ got[t] = got[Startup]
    /\ \A t \in Callers : tpc[t] # "idle" => tpc[Startup] = "ready"
    /\ tpc[Startup] = "ready" =>
          /\ loads = 1
          /\ cls_model = ModelAfterLoad(weights)

C7_Witness ==
    /\ \A t \in Callers : got[t] # 0 /\ tpc[t] = "ready"
    /\ lastPred.made
    /\ \E q \in DOMAIN lastPred.mask : lastPred.mask[q] = 255
    /\ loads = 1

\* the expression graph: what a name is built from, directly and transitively
DepthStages == {"lid_elevation", "raw_depth", "verified_depth_mask",
                "total_mining_mask", "illegal_mask", "legal_mask"}
Defined(name) == \E e \in exprs : e[1] = name
InputsOf(name) == UNION {e[2] : e \in {x \in exprs : x[1] = name}}
RECURSIVE Closure(_)
Closure(S) ==
    LET T == S \cup UNION {InputsOf(x) : x \in S}
    IN  IF T = S THEN S ELSE Closure(T)
Ancestors(name) == Closure(InputsOf(name))

SumNames == {"illegal_area", "illegal_vol", "legal_area", "legal_vol"}
CountOf(x) == Cardinality({i \in 1..Len(matLog) : matLog[i] = x})

\* C10: the reference elevation is materialized at most once (exactly once when
\* it is known), its rim is built from candidate and from nothing that depends
\* on the reference elevation, and the depth raster, the masks derived from it
\* and every area and volume materialization come after it.
C10_StageOrder ==
    /\ CountOf("rim_stats") <= 1
    /\ LidKnown => CountOf("rim_stats") = 1
    /\ pc \in {"C_getInfo", "done"} =>
          /\ InputsOf("rim_mask") = {"candidate_mask"}
          /\ Ancestors("rim_mask") \cap DepthStages = {}
    /\ \A n \in DepthStages \ {"lid_elevation"} :
          Defined(n) => /\ "lid_elevation" \in InputsOf("raw_depth")
                        /\ Len(matLog) >= 1
                        /\ matLog[1] = "rim_stats"
                        /\ lid_elevation # None
    /\ pc = "done" =>
          \A n \in {"illegal_mask", "legal_mask"} :
             {"lid_elevation", "candidate_mask"} \subseteq Ancestors(n)
    /\ \A i \in 1..Len(matLog) :
          matLog[i] \in SumNames =>
             /\ i > 1
             /\ matLog[1] = "rim_stats"
             /\ lid_elevation # None
             /\ Defined("illegal_mask") /\ Defined("legal_mask")

C10_Witness ==
    /\ pc = "done"
    /\ matLog = <<"rim_stats", "illegal_area", "illegal_vol",
                  "legal_area", "legal_vol">>
    /\ RimMean # None
    /\ illegal_vol_m3[1] > 0

\* C11: a backend error on a materialization is retried, so a run ends as
\* raised only after that materialization failed more than once in a row (the
\* first failure and at least one retry, up to the retry bound).
C11_RetriedBeforeFailure ==
    pc = "raised" =>
       /\ Len(matLog) >= 2
       /\ matLog[Len(matLog)] = "error"
       /\ matLog[Len(matLog) - 1] = "error"

====
